---- MODULE Spec2Model ----
(***************************************************************************)
(* A model of pimgu's Applet (src/pimgu/applet.py): the callback registers, *)
(* the run loop with its phases, the render loop with the per-callback      *)
(* OpenGL texture, and the shutdown sequence that follows the loop.         *)
(***************************************************************************)
EXTENDS Integers, Sequences, FiniteSets, TLC

(* ------------------------------ bounds --------------------------------- *)

\* Total number of register_*_callback calls made before run().
MaxRegs == 3
\* Largest number of events engine.event.get() hands back in one frame.
MaxEvents == 2
\* Largest surface width / height returned by a render callback.
MaxDim == 1
\* Number of OpenGL texture names glGenTextures can choose from.
MaxTexName == 2

(* --------------------------- value domains ----------------------------- *)

\* The user functions that may be registered.
Callbacks == {"f", "g"}
\* Python's None as the initial on-end callback.
None == "None"
\* pygame events: the QUIT event and any other one.
Events == {"QUIT", "OTHER"}
Dim == 0..MaxDim
\* The center coordinates a render callback may return.
Coord == {0, 1}
TexNames == 1..MaxTexName
\* A pygame.Surface, as far as the applet looks at it: its size.
Surfaces == [w : Dim, h : Dim]
\* A Python value is modelled by whether it is iterable and by its items.
PyTuple(items) == [iterable |-> TRUE, items |-> items]
PyNone == [iterable |-> FALSE, items |-> <<>>]
SomeSurface == [w |-> MaxDim, h |-> MaxDim]
\* What a render callback may return: the triple the applet asks for, None,
\* or an iterable with fewer or more than three elements.
Triples == {PyTuple(<<s, x, y>>) : s \in Surfaces, x \in Coord, y \in Coord}
ReturnValues ==
    Triples \cup {PyNone, PyTuple(<<SomeSurface, 0>>), PyTuple(<<SomeSurface, 0, 0, 0>>)}
NoQuad == [drawn |-> FALSE]

RECURSIVE EventSeqs(_)
EventSeqs(n) ==
    IF n = 0 THEN {<<>>}
    ELSE EventSeqs(n - 1) \cup
         {Append(s, e) : s \in {t \in EventSeqs(n - 1) : Len(t) = n - 1}, e \in Events}

(* ------------------------------- state --------------------------------- *)

VARIABLES
    input_callbacks,    \* self.__input_callbacks
    imgui_callbacks,    \* self.__imgui_callbacks
    render_callbacks,   \* self.__render_callbacks
    tick_callbacks,     \* self.__tick_callbacks
    on_end_callback,    \* self.__on_end_callback
    running,            \* self.__running
    pc,                 \* position in run() / __render()
    ri,                 \* 1-based index of the render loop in __render()
    ret,                \* what the current render callback returned (PyNone before)
    texture_id,         \* the local texture_id of __render()
    textures,           \* the OpenGL texture names that are alive
    quad,               \* the quad draw_texture emitted last, with its arguments
    raised,             \* the exception that left run(), "none" if none did
    phases,             \* history: phases of the current frame, in order
    calls,              \* history: callback invocations of the current frame
    texCreated,         \* history: textures created in the current frame
    texDeleted,         \* history: textures deleted in the current frame
    onEndCalls,         \* history: the on-end callbacks invoked so far
    rendererShutdown,   \* history: self.__imgui_renderer.shutdown() happened
    engineQuit          \* history: engine.quit() happened

lists == <<input_callbacks, imgui_callbacks, render_callbacks, tick_callbacks>>
locals == <<ri, ret, texture_id>>
gl == <<textures, quad, texCreated, texDeleted>>
frame == <<phases, calls>>
tail == <<onEndCalls, rendererShutdown, engineQuit>>
vars == <<lists, on_end_callback, running, pc, locals, gl, raised, frame, tail>>

Init ==
    /\ input_callbacks = <<>>
    /\ imgui_callbacks = <<>>
    /\ render_callbacks = <<>>
    /\ tick_callbacks = <<>>
    /\ on_end_callback = None
    /\ running = FALSE
    /\ pc = "init"
    /\ ri = 1
    /\ ret = PyNone
    /\ texture_id = 0
    /\ textures = {}
    /\ quad = NoQuad
    /\ raised = "none"
    /\ phases = <<>>
    /\ calls = <<>>
    /\ texCreated = 0
    /\ texDeleted = 0
    /\ onEndCalls = <<>>
    /\ rendererShutdown = FALSE
    /\ engineQuit = FALSE

(* ------------------------------ registers ------------------------------ *)

NumRegs ==
    Len(input_callbacks) + Len(imgui_callbacks)
        + Len(render_callbacks) + Len(tick_callbacks)

CanRegister == pc = "init" /\ NumRegs < MaxRegs

register_input_callback(cb) ==
    /\ CanRegister
    /\ input_callbacks' = Append(input_callbacks, cb)
    /\ UNCHANGED <<imgui_callbacks, render_callbacks, tick_callbacks>>
    /\ UNCHANGED <<on_end_callback, running, pc, locals, gl, raised, frame, tail>>

register_imgui_callback(cb) ==
    /\ CanRegister
    /\ imgui_callbacks' = Append(imgui_callbacks, cb)
    /\ UNCHANGED <<input_callbacks, render_callbacks, tick_callbacks>>
    /\ UNCHANGED <<on_end_callback, running, pc, locals, gl, raised, frame, tail>>

register_pygame_render_callback(cb) ==
    /\ CanRegister
    /\ render_callbacks' = Append(render_callbacks, cb)
    /\ UNCHANGED <<input_callbacks, imgui_callbacks, tick_callbacks>>
    /\ UNCHANGED <<on_end_callback, running, pc, locals, gl, raised, frame, tail>>

register_tick_callback(cb) ==
    /\ CanRegister
    /\ tick_callbacks' = Append(tick_callbacks, cb)
    /\ UNCHANGED <<input_callbacks, imgui_callbacks, render_callbacks>>
    /\ UNCHANGED <<on_end_callback, running, pc, locals, gl, raised, frame, tail>>

register_on_end_callback(cb) ==
    /\ pc = "init"
    /\ on_end_callback' = cb
    /\ UNCHANGED <<lists, running, pc, locals, gl, raised, frame, tail>>

(* ------------------------------ run loop ------------------------------- *)

\* run(): self.__running = True, and the first test of the while loop.
Run ==
    /\ pc = "init"
    /\ running' = TRUE
    /\ pc' = "sync"
    /\ UNCHANGED <<lists, on_end_callback, locals, gl, raised, frame, tail>>

\* __sync(): the clock tick that opens a frame.
Sync ==
    /\ pc = "sync"
    /\ phases' = <<"sync">>
    /\ calls' = <<>>
    /\ texCreated' = 0
    /\ texDeleted' = 0
    /\ pc' = "events"
    /\ UNCHANGED <<lists, on_end_callback, running, locals, textures, quad, raised, tail>>

\* A dispatch that walks the list from its end.
DispatchReversed(kind, list) ==
    [i \in 1..Len(list) |-> <<kind, list[Len(list) + 1 - i]>>]

\* The invocations one list makes: each callback once, in list order.
Dispatch(kind, list) == [i \in 1..Len(list) |-> <<kind, list[i]>>]

\* The invocations __process_events makes for the events polled: for each
\* event in turn, every input callback.
RECURSIVE InputCalls(_)
InputCalls(events) ==
    IF events = <<>> THEN <<>>
    ELSE Dispatch("input", input_callbacks) \o InputCalls(Tail(events))

\* __process_events(): a QUIT event calls set_running(False).
ProcessEvents ==
    /\ pc = "events"
    /\ \E events \in EventSeqs(MaxEvents) :
        /\ running' = IF \E i \in 1..Len(events) : events[i] = "QUIT"
                      THEN FALSE ELSE running
        /\ calls' = calls \o InputCalls(events)
    /\ phases' = Append(phases, "events")
    /\ pc' = "gui"
    /\ UNCHANGED <<lists, on_end_callback, locals, gl, raised, tail>>

\* __handle_gui(): new_frame, the imgui callbacks, end_frame.
HandleGui ==
    /\ pc = "gui"
    /\ calls' = calls \o Dispatch("imgui", imgui_callbacks)
    /\ phases' = Append(phases, "gui")
    /\ pc' = "tick"
    /\ UNCHANGED <<lists, on_end_callback, running, locals, gl, raised, tail>>

\* A run loop that goes from the tick callbacks straight to __render().
TickThenRender ==
    /\ pc = "tick"
    /\ calls' = calls \o Dispatch("tick", tick_callbacks)
    /\ phases' = Append(phases, "tick")
    /\ \E stop \in BOOLEAN :
        running' = IF stop /\ tick_callbacks # <<>> THEN FALSE ELSE running
    /\ pc' = "render"
    /\ UNCHANGED <<lists, on_end_callback, locals, gl, raised, tail>>

\* The tick loop of run(); a tick callback may call set_running(False).
Tick ==
    /\ pc = "tick"
    /\ calls' = calls \o Dispatch("tick", tick_callbacks)
    /\ phases' = Append(phases, "tick")
    /\ \E stop \in BOOLEAN :
        running' = IF stop /\ tick_callbacks # <<>> THEN FALSE ELSE running
    /\ pc' = "cls"
    /\ UNCHANGED <<lists, on_end_callback, locals, gl, raised, tail>>

\* __cls(): clear the colour and depth buffers.
Cls ==
    /\ pc = "cls"
    /\ phases' = Append(phases, "cls")
    /\ pc' = "render"
    /\ UNCHANGED <<lists, on_end_callback, running, locals, gl, raised, calls, tail>>

(* ------------------------------- render -------------------------------- *)

\* Entry of __render(): the render loop starts at the first callback.
Render ==
    /\ pc = "render"
    /\ ri' = 1
    /\ phases' = Append(phases, "render")
    /\ pc' = "render_loop"
    /\ UNCHANGED <<lists, on_end_callback, running, ret, texture_id, gl, raised, calls, tail>>

\* What `surface, cx, cy = value` does: unpacking a non-iterable raises
\* TypeError, unpacking an iterable of another length raises ValueError.
Unpack(value) ==
    IF ~value.iterable THEN "TypeError"
    ELSE IF Len(value.items) # 3 THEN "ValueError"
    ELSE "ok"

\* The try/except around the call: a TypeError is replaced by the applet's
\* own Exception, anything else leaves as it is.
RenderRaises(value) ==
    IF Unpack(value) = "TypeError" THEN "PimguException" ELSE Unpack(value)

\* One pass of the render loop up to the unpacking of the return value.
RenderCallback ==
    /\ pc = "render_loop"
    /\ ri <= Len(render_callbacks)
    /\ \E value \in ReturnValues :
        /\ ret' = value
        /\ IF RenderRaises(value) = "ok"
           THEN pc' = "texture" /\ raised' = raised
           ELSE pc' = "raised" /\ raised' = RenderRaises(value)
    /\ calls' = Append(calls, <<"render", render_callbacks[ri]>>)
    /\ quad' = NoQuad
    /\ UNCHANGED <<lists, on_end_callback, running, ri, texture_id, textures,
                   texCreated, texDeleted, phases, tail>>

\* pygame_surface_to_opengl_texture(surface): glGenTextures hands out a name
\* that is not in use, and the texture stays alive.
pygame_surface_to_opengl_texture ==
    /\ pc = "texture"
    /\ \E t \in TexNames \ textures :
        /\ texture_id' = t
        /\ textures' = textures \cup {t}
    /\ texCreated' = texCreated + 1
    /\ pc' = "draw"
    /\ UNCHANGED <<lists, on_end_callback, running, ri, ret, quad, texDeleted,
                   raised, frame, tail>>

\* The four vertices draw_texture computes.
QuadVertices(surface_width, surface_height, center_x, center_y) ==
    [x1 |-> center_x,                 y1 |-> center_y,
     x2 |-> center_x + surface_width, y2 |-> center_y,
     x3 |-> center_x + surface_width, y3 |-> center_y + surface_height,
     x4 |-> center_x,                 y4 |-> center_y + surface_height]

\* A draw_texture that leaves its texture alive.
DeleteNothing(alive, id) == alive

\* The textures alive after draw_texture's glDeleteTextures(1, [texture_id]).
DeleteTextures(alive, id) == alive \ {id}

\* draw_texture(texture_id, width, height, cx, cy), and the loop's next pass.
draw_texture ==
    /\ pc = "draw"
    /\ LET surface == ret.items[1]
           cx == ret.items[2]
           cy == ret.items[3]
       IN quad' = [drawn |-> TRUE,
                   v |-> QuadVertices(surface.w, surface.h, cx, cy),
                   tex |-> texture_id,
                   w |-> surface.w, h |-> surface.h, cx |-> cx, cy |-> cy]
    /\ textures' = DeleteTextures(textures, texture_id)
    /\ texDeleted' = texDeleted + 1
    /\ ri' = ri + 1
    /\ pc' = "render_loop"
    /\ UNCHANGED <<lists, on_end_callback, running, ret, texture_id, texCreated,
                   raised, frame, tail>>

\* The end of __render(): imgui's draw data, then engine.display.flip(); the
\* locals of __render() are gone on return; then the while test of run().
RenderFlip ==
    /\ pc = "render_loop"
    /\ ri > Len(render_callbacks)
    /\ phases' = Append(phases, "flip")
    /\ quad' = NoQuad
    /\ ri' = 1
    /\ ret' = PyNone
    /\ texture_id' = 0
    /\ pc' = IF running THEN "sync" ELSE "end"
    /\ UNCHANGED <<lists, on_end_callback, running, textures, texCreated,
                   texDeleted, raised, calls, tail>>

(* ---------------------------- after the loop --------------------------- *)

\* self.__on_end_callback(): calling None raises TypeError.
OnEnd ==
    /\ pc = "end"
    /\ IF on_end_callback = None
       THEN /\ raised' = "TypeError"
            /\ pc' = "raised"
            /\ onEndCalls' = onEndCalls
       ELSE /\ raised' = raised
            /\ pc' = "shutdown"
            /\ onEndCalls' = Append(onEndCalls, on_end_callback)
    /\ UNCHANGED <<lists, on_end_callback, running, locals, gl, frame,
                   rendererShutdown, engineQuit>>

\* self.__imgui_renderer.shutdown()
Shutdown ==
    /\ pc = "shutdown"
    /\ rendererShutdown' = TRUE
    /\ pc' = "quit"
    /\ UNCHANGED <<lists, on_end_callback, running, locals, gl, raised, frame,
                   onEndCalls, engineQuit>>

\* engine.quit(), and run() returns.
Quit ==
    /\ pc = "quit"
    /\ engineQuit' = TRUE
    /\ pc' = "done"
    /\ UNCHANGED <<lists, on_end_callback, running, locals, gl, raised, frame,
                   onEndCalls, rendererShutdown>>

RegisterInput == \E cb \in Callbacks : register_input_callback(cb)
RegisterImgui == \E cb \in Callbacks : register_imgui_callback(cb)
RegisterRender == \E cb \in Callbacks : register_pygame_render_callback(cb)
RegisterTick == \E cb \in Callbacks : register_tick_callback(cb)
RegisterOnEnd == \E cb \in Callbacks : register_on_end_callback(cb)

Next ==
    \/ RegisterInput
    \/ RegisterImgui
    \/ RegisterRender
    \/ RegisterTick
    \/ RegisterOnEnd
    \/ Run
    \/ Sync
    \/ ProcessEvents
    \/ HandleGui
    \/ Tick
    \/ Cls
    \/ Render
    \/ RenderCallback
    \/ pygame_surface_to_opengl_texture
    \/ draw_texture
    \/ RenderFlip
    \/ OnEnd
    \/ Shutdown
    \/ Quit

Spec == Init /\ [][Next]_vars

(* ------------------------- properties: helpers ------------------------- *)

PhaseOrder == <<"sync", "events", "gui", "tick", "cls", "render", "flip">>

IsPrefix(s, t) == Len(s) <= Len(t) /\ \A i \in 1..Len(s) : s[i] = t[i]

\* The phase of a frame in which callbacks of a kind are invoked.
PhaseIndex(kind) ==
    CASE kind = "input" -> 2
      [] kind = "imgui" -> 3
      [] kind = "tick" -> 4
      [] kind = "render" -> 6

\* The frame's buffer swap has happened.
FrameComplete == Len(phases) = Len(PhaseOrder)

\* The while loop of run() has ended because running was False at its test.
LoopExited ==
    \/ pc \in {"end", "shutdown", "quit", "done"}
    \/ pc = "raised" /\ raised = "TypeError"

\* The callbacks of one kind invoked in the current frame, in order.
CallsOf(kind) ==
    LET sel == SelectSeq(calls, LAMBDA c : c[1] = kind)
    IN [i \in 1..Len(sel) |-> sel[i][2]]

(* --------------------------------- C1 ---------------------------------- *)

\* C1: in every iteration of run() the phases happen in the order clock sync,
\* event polling, GUI callbacks, tick callbacks, screen clear, render
\* callbacks, buffer swap, each once; a frame that ends has been through all
\* of them; and within a frame no input callback runs after a tick callback
\* and no tick callback after a render callback, every callback running in
\* the phase of its kind.
C1_PhaseOrder ==
    /\ IsPrefix(phases, PhaseOrder)
    /\ (LoopExited \/ (pc = "sync" /\ phases # <<>>)) => phases = PhaseOrder
    /\ \A i, j \in 1..Len(calls) :
        i < j => PhaseIndex(calls[i][1]) <= PhaseIndex(calls[j][1])
    /\ \A i \in 1..Len(calls) : PhaseIndex(calls[i][1]) <= Len(phases)

\* A frame that ran to its buffer swap with an input, a tick and a render
\* callback invoked in it.
C1_Witness ==
    /\ pc = "end"
    /\ phases = PhaseOrder
    /\ \A kind \in {"input", "tick", "render"} : CallsOf(kind) # <<>>

(* --------------------------------- C2 ---------------------------------- *)

\* C2: every render callback invocation that reaches the draw creates exactly
\* one texture, which is the one deleted before the next callback is invoked:
\* at most one texture is alive at any time, it is alive only between its
\* creation and draw_texture's end, and none is alive at the buffer swap or
\* when run() has returned; at the swap as many textures were created and
\* deleted in the frame as there are render callbacks.
C2_OneTexturePerDraw ==
    /\ Cardinality(textures) <= 1
    /\ pc = "draw" => textures = {texture_id} /\ texCreated = texDeleted + 1
    /\ pc # "draw" => textures = {} /\ texCreated = texDeleted
    /\ pc \in {"render_loop", "texture", "draw"} => texDeleted = ri - 1
    /\ quad.drawn => quad.tex \notin textures
    /\ FrameComplete =>
        texCreated = Len(render_callbacks) /\ texDeleted = Len(render_callbacks)

\* run() has returned after a frame that drew two surfaces.
C2_Witness ==
    /\ pc = "done"
    /\ texCreated = 2
    /\ texDeleted = 2
    /\ textures = {}

(* --------------------------------- C3 ---------------------------------- *)

\* C3: the on-end callback is invoked exactly once per run(): never while the
\* loop runs, only the callback registered last, before the renderer is shut
\* down and the engine quit, and once the loop has exited and run() is over
\* it has been invoked once and the renderer and the engine are down.
C3_OnEndOncePerRun ==
    /\ ~LoopExited => onEndCalls = <<>>
    /\ pc \in {"shutdown", "quit", "done"} => onEndCalls = <<on_end_callback>>
    /\ (rendererShutdown \/ engineQuit) => Len(onEndCalls) = 1
    /\ engineQuit => rendererShutdown
    /\ (LoopExited /\ pc \in {"done", "raised"}) =>
        Len(onEndCalls) = 1 /\ rendererShutdown /\ engineQuit

(* --------------------------------- C4 ---------------------------------- *)

\* C4: whenever a render callback returns anything but a triple (None, or an
\* iterable of fewer or more than three items), __render raises the applet's
\* own Exception, and no texture is created or drawn for that callback.
C4_BadReturnRaisesPimgu ==
    /\ pc \in {"texture", "draw"} => Unpack(ret) = "ok"
    /\ (pc = "raised" /\ raised # "TypeError") =>
        /\ Unpack(ret) # "ok"
        /\ raised = "PimguException"
        /\ textures = {}
        /\ texCreated = ri - 1
        /\ ~quad.drawn

(* --------------------------------- C5 ---------------------------------- *)

\* C5: the quad draw_texture emits for a surface of size (w, h) and the point
\* (center_x, center_y) has the surface's size and its midpoint at that point.
C5_QuadCentered ==
    quad.drawn =>
        /\ quad.v.x3 - quad.v.x1 = quad.w
        /\ quad.v.y3 - quad.v.y1 = quad.h
        /\ quad.v.x1 + quad.v.x3 = 2 * quad.cx
        /\ quad.v.y1 + quad.v.y3 = 2 * quad.cy

(* --------------------------------- C6 ---------------------------------- *)

\* One step changes at most one callback list, and only by appending one
\* callback to it; no list changes once run() has been entered.
C6_RegisterStep ==
    LET before == <<imgui_callbacks, tick_callbacks, render_callbacks, input_callbacks>>
        after == <<imgui_callbacks', tick_callbacks', render_callbacks', input_callbacks'>>
        changed == {k \in 1..4 : after[k] # before[k]}
    IN /\ Cardinality(changed) <= 1
       /\ \A k \in changed :
            /\ pc = "init"
            /\ \E cb \in Callbacks : after[k] = Append(before[k], cb)

\* At the buffer swap, the callbacks of each kind invoked in the frame are the
\* list of that kind: each entry once, in registration order.
C6_Dispatch ==
    FrameComplete =>
        /\ CallsOf("imgui") = imgui_callbacks
        /\ CallsOf("tick") = tick_callbacks
        /\ CallsOf("render") = render_callbacks

\* C6: for each of the imgui, tick and render lists, every callback
\* registered before run() is invoked once per registration per frame, in
\* registration order, and registering a callback of one kind leaves the
\* lists of the other kinds as they were.
C6_ListIteration == []C6_Dispatch /\ [][C6_RegisterStep]_vars

\* A complete frame in which one tick callback registered twice ran twice,
\* beside a callback of another kind.
C6_Witness ==
    /\ FrameComplete
    /\ Len(tick_callbacks) = 2
    /\ tick_callbacks[1] = tick_callbacks[2]
    /\ CallsOf("tick") = tick_callbacks
    /\ Len(render_callbacks) = 1

====
